---- MODULE Spec2Model ----
(***************************************************************************)
(* Virtual-trade tracker of the XAURON Telegram scanner.                   *)
(*                                                                         *)
(*   trade_tracker.py  VirtualTrade, _crossed, add_trade,                  *)
(*                     list_active_trades, update_trade, check_hits        *)
(*   storage.py        load_state / save_state (whole-file read, rewrite)  *)
(*   bot.py            autoscan_job (opens trades), trade_monitor_job      *)
(*   main.py           trade_monitor_loop (a second monitor, own thread)   *)
(*                                                                         *)
(* Specifications:                                                         *)
(*   SpecHits    check_hits applied again and again to one in-memory       *)
(*               record                                                    *)
(*   Spec        the scan activity and the two monitors over the state     *)
(*               file, in every interleaving                               *)
(*   SpecNotify  Spec with the history of the notifications kept           *)
(*   SpecStore   the same activities following one another                 *)
(***************************************************************************)
EXTENDS Integers, Sequences, FiniteSets, TLC

(***************************************************************************)
(* Bounds of the model.                                                    *)
(***************************************************************************)
\* check_hits calls made on the one record of SpecHits
MaxCalls == 4
\* add_trade calls and monitor iterations started in Spec, together
MaxOps == 3
\* the largest MAX_ACTIVE_TRADES setting of Spec
MaxActive == 1
\* add_trade calls and monitor iterations started in SpecStore, together
MaxStoreOps == 4
\* the largest MAX_ACTIVE_TRADES setting of SpecStore
MaxStoreActive == 2

\* SpecFile: save_state calls started
MaxSaves == 3

\* SpecScan: scan units and manual queries run
MaxScans == 3

(***************************************************************************)
(* VirtualTrade (trade_tracker.py 8-29).  Optional[float] last_price is    *)
(* the empty tuple for None and <<p>> for the float p.                     *)
(***************************************************************************)
None == <<>>

Some(p) == <<p>>

VirtualTrade(symbol, tf, side, score, entry, sl, tp1, tp2, tp3, created_at) ==
    [symbol |-> symbol, tf |-> tf, side |-> side, score |-> score,
     entry |-> entry, sl |-> sl, tp1 |-> tp1, tp2 |-> tp2, tp3 |-> tp3,
     created_at |-> created_at,
     hit_tp1 |-> FALSE, hit_tp2 |-> FALSE, hit_tp3 |-> FALSE,
     hit_sl |-> FALSE, closed |-> FALSE,
     last_price |-> None]

\* The plans analyze_once hands to VirtualTrade(...): build_trade_plan puts
\* sl below and tp1 < tp2 < tp3 above the entry for BUY, mirrored for SELL,
\* and every level on the entry when the ATR is 0.
Plans ==
    { [side |-> "BUY",  entry |-> 2000, sl |-> 1980, tp1 |-> 2010, tp2 |-> 2020, tp3 |-> 2030],
      [side |-> "SELL", entry |-> 2000, sl |-> 2020, tp1 |-> 1990, tp2 |-> 1980, tp3 |-> 1970],
      [side |-> "BUY",  entry |-> 2000, sl |-> 2000, tp1 |-> 2000, tp2 |-> 2000, tp3 |-> 2000],
      [side |-> "SELL", entry |-> 2000, sl |-> 2000, tp1 |-> 2000, tp2 |-> 2000, tp3 |-> 2000] }

\* Prices a price source may report.
Prices == {1965, 1975, 1995, 2000, 2005, 2010, 2012, 2022, 2025, 2035}

Events == {"SL", "TP1", "TP2", "TP3"}

(***************************************************************************)
(* trade_tracker.py: _is_buy, _crossed, check_hits                         *)
(***************************************************************************)
\* side.strip().upper() == "BUY"; the sides stored are decide_signal's
\* "BUY" and "SELL", which strip() and upper() leave as they are.
_is_buy(side) == side = "BUY"

\* the crossing test without the previous price: the level is touched
_crossed_touch(level, prev, now, up) ==
    IF up THEN now >= level ELSE now <= level

\* the crossing test that holds only with a previous price
_crossed_needs_prev(level, prev, now, up) ==
    /\ prev # None
    /\ IF up THEN prev[1] < level /\ level <= now
             ELSE prev[1] > level /\ level >= now

_crossed(level, prev, now, up) ==
    IF prev = None
    THEN (IF up THEN now >= level ELSE now <= level)
    ELSE (IF up THEN prev[1] < level /\ level <= now
                ELSE prev[1] > level /\ level >= now)

\* lines 98-110: the stop-loss test, downward for BUY and upward for SELL
sl_crossed(tr, prev, price) ==
    /\ ~tr.hit_sl
    /\ ~tr.closed
    /\ _crossed(tr.sl, prev, price, ~_is_buy(tr.side))

\* a stop-loss hit that flags the level and forgets to close the trade
sl_hit_stays_open(tr) ==
    [tr |-> [tr EXCEPT !.hit_sl = TRUE], events |-> <<"SL">>]

\* lines 101-104 / 107-110
sl_hit(tr) ==
    [tr |-> [tr EXCEPT !.hit_sl = TRUE, !.closed = TRUE], events |-> <<"SL">>]

\* the TP1 test without its "not tr.hit_tp1" guard
tp1_stage_unguarded(s, prev, price) ==
    IF /\ ~s.tr.closed
       /\ _crossed(s.tr.tp1, prev, price, _is_buy(s.tr.side))
    THEN [tr |-> [s.tr EXCEPT !.hit_tp1 = TRUE], events |-> Append(s.events, "TP1")]
    ELSE s

\* lines 113-119; s is the pair (record, events so far)
tp1_stage(s, prev, price) ==
    IF /\ ~s.tr.hit_tp1
       /\ ~s.tr.closed
       /\ _crossed(s.tr.tp1, prev, price, _is_buy(s.tr.side))
    THEN [tr |-> [s.tr EXCEPT !.hit_tp1 = TRUE], events |-> Append(s.events, "TP1")]
    ELSE s

\* the TP2 test reading tr.last_price after line 87 has overwritten it
tp2_stage_new_prev(s, prev, price) ==
    IF /\ ~s.tr.hit_tp2
       /\ ~s.tr.closed
       /\ _crossed(s.tr.tp2, s.tr.last_price, price, _is_buy(s.tr.side))
    THEN [tr |-> [s.tr EXCEPT !.hit_tp2 = TRUE], events |-> Append(s.events, "TP2")]
    ELSE s

\* lines 121-127
tp2_stage(s, prev, price) ==
    IF /\ ~s.tr.hit_tp2
       /\ ~s.tr.closed
       /\ _crossed(s.tr.tp2, prev, price, _is_buy(s.tr.side))
    THEN [tr |-> [s.tr EXCEPT !.hit_tp2 = TRUE], events |-> Append(s.events, "TP2")]
    ELSE s

\* the TP3 test without its "not tr.closed" guard
tp3_stage_ignores_closed(s, prev, price) ==
    IF /\ ~s.tr.hit_tp3
       /\ _crossed(s.tr.tp3, prev, price, _is_buy(s.tr.side))
    THEN [tr |-> [s.tr EXCEPT !.hit_tp3 = TRUE, !.closed = TRUE],
          events |-> Append(s.events, "TP3")]
    ELSE s

\* lines 129-137
tp3_stage(s, prev, price) ==
    IF /\ ~s.tr.hit_tp3
       /\ ~s.tr.closed
       /\ _crossed(s.tr.tp3, prev, price, _is_buy(s.tr.side))
    THEN [tr |-> [s.tr EXCEPT !.hit_tp3 = TRUE, !.closed = TRUE],
          events |-> Append(s.events, "TP3")]
    ELSE s

\* check_hits with the take-profit levels tested before the stop-loss
check_hits_tp_first(tr, price) ==
    LET prev == tr.last_price
        t0   == [tr EXCEPT !.last_price = Some(price)]
        tps  == tp3_stage(tp2_stage(tp1_stage([tr |-> t0, events |-> <<>>],
                                              prev, price), prev, price), prev, price)
    IN  IF sl_crossed(tps.tr, prev, price)
        THEN [tr |-> sl_hit(tps.tr).tr, events |-> Append(tps.events, "SL")]
        ELSE tps

\* check_hits reading the previous price after line 87 has overwritten it
check_hits_new_prev(tr, price) ==
    LET t0   == [tr EXCEPT !.last_price = Some(price)]
        prev == t0.last_price
    IN  IF sl_crossed(t0, prev, price)
        THEN sl_hit(t0)
        ELSE tp3_stage(tp2_stage(tp1_stage([tr |-> t0, events |-> <<>>],
                                           prev, price), prev, price), prev, price)

\* check_hits(tr, price): the record as the call leaves it, and the list returned
check_hits(tr, price) ==
    LET prev == tr.last_price
        t0   == [tr EXCEPT !.last_price = Some(price)]
    IN  IF sl_crossed(t0, prev, price)
        THEN sl_hit(t0)
        ELSE tp3_stage(tp2_stage(tp1_stage([tr |-> t0, events |-> <<>>],
                                           prev, price), prev, price), prev, price)

\* config.py 10: MAX_ACTIVE_TRADES = int(os.getenv("MAX_ACTIVE_TRADES", "20")),
\* read once when the process starts
VARIABLE MAX_ACTIVE_TRADES

(***************************************************************************)
(* trade_tracker.py: add_trade, list_active_trades, update_trade, on the   *)
(* "trades" list of the state file.  storage.py reads the whole file and   *)
(* rewrites it whole (json.dump to path + ".tmp", then os.replace); a      *)
(* missing file reads as no trades.  json.load gives back the strings,     *)
(* booleans, None and floats (written by repr) that json.dump wrote, so a  *)
(* list is read as it was saved.                                           *)
(***************************************************************************)
\* storage.py 5-12: load_state gives the list of the file, and no trades
\* when the file cannot be opened or parsed (except Exception, line 11)
load_state(file, readable) == IF readable THEN file ELSE <<>>

\* the outcomes of reading the state file: without faults every read succeeds
Reads(faults) == IF faults THEN {TRUE, FALSE} ELSE {TRUE}

\* line 47: the positions of the records with closed false
active(trades) == {i \in DOMAIN trades : ~trades[i].closed}

\* the eviction picking the newest open record instead of the oldest
newest_active(trades) ==
    CHOOSE i \in active(trades) :
        \A j \in active(trades) :
            \/ trades[i].created_at > trades[j].created_at
            \/ (trades[i].created_at = trades[j].created_at /\ i >= j)

\* lines 50-51: sorted() is stable, so among equal created_at the record
\* that comes first in the list is active_sorted[0]
oldest_active(trades) ==
    CHOOSE i \in active(trades) :
        \A j \in active(trades) :
            \/ trades[i].created_at < trades[j].created_at
            \/ (trades[i].created_at = trades[j].created_at /\ i <= j)

\* lines 47-51: the eviction closes the record in place (active holds the
\* very dicts of trades)
evict(trades) ==
    IF Cardinality(active(trades)) >= MAX_ACTIVE_TRADES
    THEN [trades EXCEPT ![oldest_active(trades)].closed = TRUE]
    ELSE trades

\* lines 44-54: the list add_trade saves, from the list it loaded
add_trade(trades, trade) == Append(evict(trades), trade)

\* lines 58-64: copies of the records with closed false, in file order
list_active_trades(trades) == SelectSeq(trades, LAMBDA t : ~t.closed)

\* lines 70-73: the fields update_trade compares
matches(t, updated) ==
    /\ t.created_at = updated.created_at
    /\ t.symbol = updated.symbol
    /\ t.side = updated.side
    /\ t.entry = updated.entry

\* lines 68-76: the list update_trade saves, from the list it loaded: the
\* first matching record is replaced (break), none when nothing matches
update_trade(trades, updated) ==
    LET hit == {i \in DOMAIN trades : matches(trades[i], updated)}
    IN  IF hit = {} THEN trades
        ELSE LET first == CHOOSE i \in hit : \A j \in hit : i <= j
             IN  [trades EXCEPT ![first] = updated]

(***************************************************************************)
(* The activities.  "job" is bot.py's trade_monitor_job and runs on the    *)
(* event loop that also runs autoscan_job; "loop" is main.py's             *)
(* trade_monitor_loop on its own thread (main.py 129-136).                 *)
(***************************************************************************)
Monitors == {"job", "loop"}

\* what autoscan_job scans: bot.py 511-516
Symbols == {"XAU/USD"}

Timeframes == {"1min", "5min"}

\* the plans of the directional results of analyze_once
ScanPlans == {p \in Plans : p.sl # p.entry}

\* the plans SpecStore opens trades with
StorePlans == {p \in ScanPlans : p.side = "BUY"}

\* prices the price source reports to the monitors
FeedPrices == {1975, 2012, 2035}

VARIABLES
    \* SpecHits: one in-memory record and the history of the calls made on it
    rec,        \* the VirtualTrade object
    calls,      \* check_hits calls made so far
    pre,        \* the record as it was before the last call
    lastPrice,  \* the price of the last call, None before the first
    lastEvents, \* the list the last call returned
    emitted,    \* event -> number of calls that returned it
    \* Spec
    store,      \* the "trades" list of the state file
    clock,      \* the last value time.time() returned
    adds,       \* add_trade calls started
    ticks,      \* monitor iterations started
    scanPc,     \* "idle", or "loaded" between add_trade's load and save
    scanBuf,    \* the list add_trade is about to save
    mon,        \* the state of each monitor
    sent,       \* (trade, event) notifications delivered
    twice,      \* (trade, event) notifications delivered more than once
    lost,       \* (trade, event) persisted as hit and never delivered
    \* SpecFile: the state file and its temporary file in the file system
    names,      \* "path" and "tmp": the inode each name refers to, 0 for none
    disk,       \* inode -> the chunks written to it
    wr,         \* the state of each writer
    saves,      \* save_state calls started
    \* SpecScore and SpecScan: the scorer and the scan of bot.py
    MTF_FILTER, \* bot.py 49, read once when the process starts
    MIN_SCORE,  \* bot.py 47, read once when the process starts
    obs,        \* what the candles of one analysis amount to
    result,     \* what analyze_once returned for obs, None before the call
    LAST_STATE, \* bot.py 53: key -> last state recorded, "NONE" when absent
    alerts,     \* key -> send_message calls the scan made for an alert
    manual,     \* signals announced in reply to a manual query
    scans,      \* scan units and manual queries run so far
    scanned     \* key, signal and prev of the last scan unit, None otherwise

hitsVars == <<rec, calls, pre, lastPrice, lastEvents, emitted>>

sysVars == <<MAX_ACTIVE_TRADES, store, clock, adds, ticks, scanPc, scanBuf, mon, sent, twice, lost>>

fileVars == <<names, disk, wr, saves>>

vars == <<rec, calls, pre, lastPrice, lastEvents, emitted,
          MAX_ACTIVE_TRADES, store, clock, adds, ticks, scanPc, scanBuf, mon, sent, twice, lost,
          names, disk, wr, saves,
          MTF_FILTER, MIN_SCORE, obs, result, LAST_STATE, alerts, manual, scans, scanned>>

scanVars == <<MTF_FILTER, MIN_SCORE, obs, result, LAST_STATE, alerts, manual, scans, scanned>>

\* the activities that write the state file: the event loop of bot.py and
\* the thread of main.py
Writers == {"bot", "loop"}

IdleWriter == [pc |-> "idle", state |-> <<>>, fd |-> 0]

\* no state file, no temporary file, no save_state call under way
FileStart ==
    /\ names = [path |-> 0, tmp |-> 0]
    /\ disk = <<>>
    /\ wr = [w \in Writers |-> IdleWriter]
    /\ saves = 0

(***************************************************************************)
(* bot.py: the scorer.  Indicator values are in hundredths, prices and the *)
(* ATR in price units, the multipliers of the plan in tenths and           *)
(* MIN_ATR_PCT in thousandths, so that the arithmetic of analyze_once is   *)
(* integer arithmetic.                                                     *)
(***************************************************************************)
\* bot.py 44: MIN_STRENGTH = 0.12, in hundredths
MIN_STRENGTH == 12

\* bot.py 46: MIN_ATR_PCT = 0.001, in thousandths
MIN_ATR_PCT == 1

\* bot.py 39-42: 1.5, 1.0, 2.0 and 3.0, in tenths
ATR_SL_MULT == 15

ATR_TP1_MULT == 10

ATR_TP2_MULT == 20

ATR_TP3_MULT == 30

\* what vortex, atr and ema make of the candles fetched for one analysis:
\* the two indicator lines of the timeframe and of MTF_TIMEFRAME, the close
\* and the open of the last candle, the EMA and the ATR.  The ATR is even,
\* so that ATR_SL_MULT times it is a whole number of price units.
Observations ==
    [vi_p : {90, 100, 112, 122}, vi_m : {90, 100, 112, 122},
     vi_p_htf : {100, 110}, vi_m_htf : {100, 110},
     last_price : {4000}, open : {3995, 4000, 4005},
     ema_val : {3990, 4000, 4010}, atr_val : {0, 2, 4, 10}]

\* the observations the scan meets in SpecScan
ScanObservations ==
    {o \in Observations :
        /\ o.atr_val = 10
        /\ o.open = 4000
        /\ o.ema_val # 4000
        /\ o.vi_p_htf # o.vi_m_htf
        /\ <<o.vi_p, o.vi_m>> \in {<<122, 100>>, <<100, 122>>, <<100, 100>>}}

\* a market with nothing to report
Flat ==
    [vi_p |-> 100, vi_m |-> 100, vi_p_htf |-> 100, vi_m_htf |-> 100,
     last_price |-> 4000, open |-> 4000, ema_val |-> 4000, atr_val |-> 0]

Abs(x) == IF x < 0 THEN -x ELSE x

\* decide_signal with "strength <= MIN_STRENGTH" for the WAIT test
decide_signal_strict(vi_p, vi_m) ==
    LET strength == Abs(vi_p - vi_m)
    IN  IF strength <= MIN_STRENGTH THEN <<"WAIT", strength>>
        ELSE <<IF vi_p > vi_m THEN "BUY" ELSE "SELL", strength>>

\* decide_signal with the signed difference for the strength
decide_signal_signed(vi_p, vi_m) ==
    LET strength == vi_p - vi_m
    IN  IF Abs(strength) < MIN_STRENGTH THEN <<"WAIT", strength>>
        ELSE <<IF vi_p > vi_m THEN "BUY" ELSE "SELL", strength>>

\* bot.py 242-246
decide_signal(vi_p, vi_m) ==
    LET strength == Abs(vi_p - vi_m)
    IN  IF strength < MIN_STRENGTH THEN <<"WAIT", strength>>
        ELSE <<IF vi_p > vi_m THEN "BUY" ELSE "SELL", strength>>

\* build_trade_plan without its mirrored branch: the levels of a BUY for
\* either direction
build_trade_plan_one_sided(last_price, direction, atr_val) ==
    LET entry == last_price
    IN  [entry |-> entry,
         sl  |-> entry - (atr_val * ATR_SL_MULT) \div 10,
         tp1 |-> entry + (atr_val * ATR_TP1_MULT) \div 10,
         tp2 |-> entry + (atr_val * ATR_TP2_MULT) \div 10,
         tp3 |-> entry + (atr_val * ATR_TP3_MULT) \div 10]

\* bot.py 249-261
build_trade_plan(last_price, direction, atr_val) ==
    LET entry == last_price
    IN  IF direction = "BUY"
        THEN [entry |-> entry,
              sl  |-> entry - (atr_val * ATR_SL_MULT) \div 10,
              tp1 |-> entry + (atr_val * ATR_TP1_MULT) \div 10,
              tp2 |-> entry + (atr_val * ATR_TP2_MULT) \div 10,
              tp3 |-> entry + (atr_val * ATR_TP3_MULT) \div 10]
        ELSE [entry |-> entry,
              sl  |-> entry + (atr_val * ATR_SL_MULT) \div 10,
              tp1 |-> entry - (atr_val * ATR_TP1_MULT) \div 10,
              tp2 |-> entry - (atr_val * ATR_TP2_MULT) \div 10,
              tp3 |-> entry - (atr_val * ATR_TP3_MULT) \div 10]

\* bot.py 233-236: the quotient atr_val / price, kept as a fraction
atr_percent(atr_val, price) ==
    IF price = 0 THEN [num |-> 0, den |-> 1] ELSE [num |-> atr_val, den |-> price]

\* bot.py 283-319: analyze_once on the observation o, under the settings
\* mtf_filter and min_score
analyze_once(o, mtf_filter, min_score) ==
    LET decided   == decide_signal(o.vi_p, o.vi_m)
        signal    == decided[1]
        strength  == decided[2]
        direction == IF o.vi_p > o.vi_m THEN "BUY" ELSE "SELL"
        plan      == build_trade_plan(o.last_price, direction, o.atr_val)
        trend_ok  == IF direction = "BUY" THEN o.last_price > o.ema_val
                     ELSE o.last_price < o.ema_val
        apct      == atr_percent(o.atr_val, o.last_price)
        vol_ok    == apct.num * 1000 >= MIN_ATR_PCT * apct.den
        htf_dir   == IF o.vi_p_htf > o.vi_m_htf THEN "BUY" ELSE "SELL"
        mtf_ok    == IF mtf_filter THEN htf_dir = direction ELSE TRUE
        score     == (IF mtf_ok THEN 30 ELSE 0)
                     + (IF trend_ok THEN 25 ELSE 0)
                     + (IF strength >= MIN_STRENGTH + 10 THEN 20
                        ELSE IF strength >= MIN_STRENGTH THEN 10 ELSE 0)
                     + (IF vol_ok THEN 15 ELSE 0)
                     + (IF \/ (direction = "BUY" /\ o.last_price >= o.open)
                           \/ (direction = "SELL" /\ o.last_price <= o.open)
                        THEN 10 ELSE 0)
        wait      == \/ signal = "WAIT"
                     \/ (mtf_filter /\ ~mtf_ok)
                     \/ ~trend_ok
                     \/ ~vol_ok
                     \/ score < min_score
    IN  [signal |-> IF wait THEN "WAIT" ELSE signal,
         plan |-> plan, strength |-> strength, vi_p |-> o.vi_p, vi_m |-> o.vi_m,
         atr_val |-> o.atr_val, score |-> score]

(***************************************************************************)
(* bot.py: the scan and the manual query                                   *)
(***************************************************************************)
\* the chats that have the scan switched on
Chats == {1}

\* bot.py 518: key = (chat_id, sym, tf)
Keys == Chats \X Symbols \X Timeframes

\* trade_tracker.py 8-29: the fields of the dataclass VirtualTrade
VirtualTradeFields ==
    {"symbol", "tf", "side", "score", "entry", "sl", "tp1", "tp2", "tp3", "created_at",
     "hit_tp1", "hit_tp2", "hit_tp3", "hit_sl", "closed", "last_price"}

\* the fields without a default
VirtualTradeRequired ==
    {"symbol", "tf", "side", "score", "entry", "sl", "tp1", "tp2", "tp3", "created_at"}

\* bot.py 480-490 and 529-539: the keywords of the call VirtualTrade(...)
BotKeywords ==
    {"chat_id", "symbol", "tf", "side", "score", "entry", "sl", "tp1", "tp2", "tp3",
     "created_at"}

\* the __init__ a dataclass generates: a keyword that is no field, or a
\* missing field without default, raises TypeError
Constructs(keywords) ==
    /\ keywords \subseteq VirtualTradeFields
    /\ VirtualTradeRequired \subseteq keywords

\* the test of bot.py 522 without its comparison to the last state
alerting_every_signal(signal, prev) == signal \in {"BUY", "SELL"}

\* bot.py 522
alerting(signal, prev) == signal \in {"BUY", "SELL"} /\ signal # prev

\* the settings are read, no analysis has been made, LAST_STATE is empty
ScanStart(filters, scores, observations) ==
    /\ MTF_FILTER \in filters
    /\ MIN_SCORE \in scores
    /\ obs \in observations
    /\ result = None
    /\ LAST_STATE = [k \in Keys |-> "NONE"]
    /\ alerts = [k \in Keys |-> 0]
    /\ manual = 0
    /\ scans = 0
    /\ scanned = None

(***************************************************************************)
(* SpecHits                                                                *)
(***************************************************************************)
InRange(seq) == {seq[i] : i \in DOMAIN seq}

\* a monitor between two iterations
IdleMonitor ==
    [pc |-> "idle", trades |-> <<>>, idx |-> 0, hits |-> <<>>, pending |-> <<>>,
     failed |-> {}, buf |-> <<>>]

\* the identity the specification gives a trade (the dataclass of
\* trade_tracker.py 8-29 has no chat id field)
TradeKey(t) == <<t.symbol, t.tf, t.side, t.entry, t.created_at>>

HitsInit ==
    /\ \E p \in Plans :
         rec = VirtualTrade("XAU/USD", "5min", p.side, 80, p.entry, p.sl,
                            p.tp1, p.tp2, p.tp3, 1)
    /\ calls = 0
    /\ pre = rec
    /\ lastPrice = None
    /\ lastEvents = <<>>
    /\ emitted = [e \in Events |-> 0]
    /\ MAX_ACTIVE_TRADES = 1
    /\ store = <<>>
    /\ clock = 0
    /\ adds = 0
    /\ ticks = 0
    /\ scanPc = "idle"
    /\ scanBuf = <<>>
    /\ mon = [m \in Monitors |-> IdleMonitor]
    /\ sent = {}
    /\ twice = {}
    /\ lost = {}
    /\ FileStart
    /\ ScanStart({TRUE}, {70}, {Flat})

CheckHitsCall ==
    /\ calls < MaxCalls
    /\ \E price \in Prices :
         LET r == check_hits(rec, price)
         IN  /\ rec' = r.tr
             /\ pre' = rec
             /\ lastPrice' = Some(price)
             /\ lastEvents' = r.events
             /\ emitted' = [e \in Events |->
                              emitted[e] + (IF e \in InRange(r.events) THEN 1 ELSE 0)]
    /\ calls' = calls + 1
    /\ UNCHANGED sysVars
    /\ UNCHANGED fileVars
    /\ UNCHANGED scanVars

HitsNext == CheckHitsCall

SpecHits == HitsInit /\ [][HitsNext]_vars

(***************************************************************************)
(* Spec: the scan activity and the two monitors over one state file.       *)
(* Code between two awaits of the event loop runs without the other        *)
(* coroutine of that loop in between; the thread of main.py runs at any    *)
(* time, also between the load and the save of a call on the event loop.   *)
(***************************************************************************)
\* the process starts with its setting read and no state file
Tracker(settings) ==
    /\ rec = VirtualTrade("XAU/USD", "5min", "BUY", 80, 2000, 1980, 2010, 2020, 2030, 1)
    /\ calls = 0
    /\ pre = rec
    /\ lastPrice = None
    /\ lastEvents = <<>>
    /\ emitted = [e \in Events |-> 0]
    /\ MAX_ACTIVE_TRADES \in settings
    /\ store = <<>>
    /\ clock = 0
    /\ adds = 0
    /\ ticks = 0
    /\ scanPc = "idle"
    /\ scanBuf = <<>>
    /\ mon = [m \in Monitors |-> IdleMonitor]
    /\ sent = {}
    /\ twice = {}
    /\ lost = {}
    /\ FileStart

\* bot.py 47 and 49: MIN_SCORE is 70 and MTF_FILTER is on unless the
\* environment says otherwise
Start(settings) == Tracker(settings) /\ ScanStart({TRUE}, {70}, {Flat})

Init == Start(1..MaxActive)

\* the event loop is not inside another coroutine's add_trade / update_trade
LoopFreeFor(who) ==
    /\ who # "scan" => scanPc = "idle"
    /\ who # "job" => mon["job"].pc # "save"

\* bot.py 522-540 (autoscan_job) and 475-491 (on_text): a directional
\* result is announced and add_trade(VirtualTrade(..., created_at =
\* time.time())) is called; trade_tracker.py 43-54: load and mutate.
\* time.time() is the wall clock: it may return the value it returned to
\* the call before.
ScanAddLoad(limit, plans, faults) ==
    /\ adds + ticks < limit
    /\ scanPc = "idle"
    /\ LoopFreeFor("scan")
    /\ \E symbol \in Symbols, tf \in Timeframes, p \in plans, now \in {clock, clock + 1},
          readable \in Reads(faults) :
         /\ clock' = now
         /\ scanBuf' = add_trade(load_state(store, readable),
                                 VirtualTrade(symbol, tf, p.side, 80, p.entry, p.sl,
                                              p.tp1, p.tp2, p.tp3, now))
    /\ scanPc' = "loaded"
    /\ adds' = adds + 1
    /\ UNCHANGED <<MAX_ACTIVE_TRADES, store, ticks, mon, sent, twice, lost>>
    /\ UNCHANGED hitsVars
    /\ UNCHANGED scanVars
    /\ UNCHANGED fileVars

\* trade_tracker.py 55: save_state
ScanAddSave ==
    /\ scanPc = "loaded"
    /\ store' = scanBuf
    /\ scanPc' = "idle"
    /\ scanBuf' = <<>>
    /\ UNCHANGED <<MAX_ACTIVE_TRADES, clock, adds, ticks, mon, sent, twice, lost>>
    /\ UNCHANGED hitsVars
    /\ UNCHANGED scanVars
    /\ UNCHANGED fileVars

\* the monitor goes on to the next trade of its list, or ends the iteration
NextTrade(s) ==
    IF s.idx < Len(s.trades)
    THEN [s EXCEPT !.pc = "fetch", !.idx = s.idx + 1, !.hits = <<>>, !.pending = <<>>,
                   !.failed = {}, !.buf = <<>>]
    ELSE IdleMonitor

\* bot.py 363 / main.py 92: trades = list_active_trades()
MonitorList(m, limit, faults) ==
    /\ mon[m].pc = "idle"
    /\ adds + ticks < limit
    /\ ticks' = ticks + 1
    /\ m = "job" => LoopFreeFor("job")
    /\ \E readable \in Reads(faults) :
         LET trades == list_active_trades(load_state(store, readable))
         IN  mon' = [mon EXCEPT ![m] =
                       IF trades = <<>> THEN IdleMonitor
                       ELSE [IdleMonitor EXCEPT
                                !.pc = "fetch", !.trades = trades, !.idx = 1]]
    /\ UNCHANGED <<MAX_ACTIVE_TRADES, store, clock, adds, scanPc, scanBuf, sent, twice, lost>>
    /\ UNCHANGED hitsVars
    /\ UNCHANGED scanVars
    /\ UNCHANGED fileVars

\* bot.py 367-369 / main.py 96-99: the price source has no price: continue
MonitorNoPrice(m) ==
    /\ mon[m].pc = "fetch"
    /\ m = "job" => LoopFreeFor("job")
    /\ mon' = [mon EXCEPT ![m] = NextTrade(mon[m])]
    /\ UNCHANGED <<MAX_ACTIVE_TRADES, store, clock, adds, ticks, scanPc, scanBuf, sent, twice, lost>>
    /\ UNCHANGED hitsVars
    /\ UNCHANGED scanVars
    /\ UNCHANGED fileVars

\* the price source raises: bot.py 380-381 catches it inside the for loop,
\* main.py 114-115 outside of it
MonitorFetchRaises(m) ==
    /\ mon[m].pc = "fetch"
    /\ m = "job" => LoopFreeFor("job")
    /\ mon' = [mon EXCEPT ![m] =
                  IF m = "job" THEN NextTrade(mon[m]) ELSE IdleMonitor]
    /\ UNCHANGED <<MAX_ACTIVE_TRADES, store, clock, adds, ticks, scanPc, scanBuf, sent, twice, lost>>
    /\ UNCHANGED hitsVars
    /\ UNCHANGED scanVars
    /\ UNCHANGED fileVars

\* bot.py 371-372 / main.py 101-103: hits = check_hits(trade, price)
MonitorCheck(m) ==
    /\ mon[m].pc = "fetch"
    /\ m = "job" => LoopFreeFor("job")
    /\ \E price \in FeedPrices :
         LET s == mon[m]
             r == check_hits(s.trades[s.idx], price)
             checked == [s EXCEPT !.trades[s.idx] = r.tr, !.hits = r.events]
         IN  mon' = [mon EXCEPT ![m] =
                       IF r.events = <<>> THEN NextTrade(checked)
                       ELSE [checked EXCEPT !.pc = "send", !.pending = r.events]]
    /\ UNCHANGED <<MAX_ACTIVE_TRADES, store, clock, adds, ticks, scanPc, scanBuf, sent, twice, lost>>
    /\ UNCHANGED hitsVars
    /\ UNCHANGED scanVars
    /\ UNCHANGED fileVars

\* bot.py 373-376 / main.py 105-110: the next hit is sent and delivered.
\* (bot.py 376 reads the destination from tr.chat_id, which is no field of
\* the dataclass of trade_tracker.py 8-29; the send is modelled by its two
\* outcomes, delivered here and failing in MonitorSendFails.)
\* The history variables sent, twice and lost are kept when log is TRUE.
MonitorSendDelivers(m, log) ==
    /\ mon[m].pc = "send"
    /\ m = "job" => LoopFreeFor("job")
    /\ LET s == mon[m]
           note == <<TradeKey(s.trades[s.idx]), Head(s.pending)>>
           rest == Tail(s.pending)
       IN  /\ sent' = IF log THEN sent \cup {note} ELSE sent
           /\ twice' = IF log /\ note \in sent THEN twice \cup {note} ELSE twice
           /\ mon' = [mon EXCEPT ![m] =
                         [s EXCEPT !.pending = rest,
                                   !.pc = IF rest = <<>> THEN "update" ELSE "send"]]
    /\ UNCHANGED <<MAX_ACTIVE_TRADES, store, clock, adds, ticks, scanPc, scanBuf, lost>>
    /\ UNCHANGED hitsVars
    /\ UNCHANGED scanVars
    /\ UNCHANGED fileVars

\* the send fails.  bot.py 376: the exception of send_message leaves the
\* try block at 380, past update_trade.  telegram_sender.py 8-25:
\* send_telegram returns without sending or swallows the exception, and
\* main.py goes on with the next hit.
MonitorSendFails(m, log) ==
    /\ mon[m].pc = "send"
    /\ m = "job" => LoopFreeFor("job")
    /\ LET s == mon[m]
           rest == Tail(s.pending)
       IN  mon' = [mon EXCEPT ![m] =
                     IF m = "job" THEN NextTrade(s)
                     ELSE [s EXCEPT !.pending = rest,
                                    !.failed = IF log THEN s.failed \cup {Head(s.pending)}
                                               ELSE s.failed,
                                    !.pc = IF rest = <<>> THEN "update" ELSE "send"]]
    /\ UNCHANGED <<MAX_ACTIVE_TRADES, store, clock, adds, ticks, scanPc, scanBuf, sent, twice, lost>>
    /\ UNCHANGED hitsVars
    /\ UNCHANGED scanVars
    /\ UNCHANGED fileVars

\* bot.py 378 / main.py 112: update_trade(trade); trade_tracker.py 67-76
MonitorUpdateLoad(m, faults) ==
    /\ mon[m].pc = "update"
    /\ m = "job" => LoopFreeFor("job")
    /\ \E readable \in Reads(faults) :
         LET s == mon[m]
         IN  mon' = [mon EXCEPT ![m] =
                       [s EXCEPT !.pc = "save",
                                 !.buf = update_trade(load_state(store, readable),
                                                      s.trades[s.idx])]]
    /\ UNCHANGED <<MAX_ACTIVE_TRADES, store, clock, adds, ticks, scanPc, scanBuf, sent, twice, lost>>
    /\ UNCHANGED hitsVars
    /\ UNCHANGED scanVars
    /\ UNCHANGED fileVars

\* trade_tracker.py 77: save_state, and on to the next trade
MonitorUpdateSave(m) ==
    /\ mon[m].pc = "save"
    /\ LET s == mon[m]
       IN  /\ store' = s.buf
           /\ lost' = lost \cup {<<TradeKey(s.trades[s.idx]), e>> : e \in s.failed}
           /\ mon' = [mon EXCEPT ![m] = NextTrade(s)]
    /\ UNCHANGED <<MAX_ACTIVE_TRADES, clock, adds, ticks, scanPc, scanBuf, sent, twice>>
    /\ UNCHANGED hitsVars
    /\ UNCHANGED scanVars
    /\ UNCHANGED fileVars

Next ==
    \/ ScanAddLoad(MaxOps, ScanPlans, FALSE)
    \/ ScanAddSave
    \/ \E m \in Monitors :
         \/ MonitorList(m, MaxOps, FALSE)
         \/ MonitorNoPrice(m)
         \/ MonitorFetchRaises(m)
         \/ MonitorCheck(m)
         \/ MonitorSendDelivers(m, FALSE)
         \/ MonitorSendFails(m, FALSE)
         \/ MonitorUpdateLoad(m, FALSE)
         \/ MonitorUpdateSave(m)

Spec == Init /\ [][Next]_vars

\* the same program, with the history of the notifications kept
NotifyNext ==
    \/ ScanAddLoad(MaxOps, ScanPlans, FALSE)
    \/ ScanAddSave
    \/ \E m \in Monitors :
         \/ MonitorList(m, MaxOps, FALSE)
         \/ MonitorNoPrice(m)
         \/ MonitorFetchRaises(m)
         \/ MonitorCheck(m)
         \/ MonitorSendDelivers(m, TRUE)
         \/ MonitorSendFails(m, TRUE)
         \/ MonitorUpdateLoad(m, FALSE)
         \/ MonitorUpdateSave(m)

SpecNotify == Init /\ [][NotifyNext]_vars

(***************************************************************************)
(* SpecStore: the same program when its activities follow one another: an  *)
(* add_trade call or a monitor iteration starts only when nothing else is  *)
(* under way.                                                              *)
(***************************************************************************)
StoreInit == Start(1..MaxStoreActive)

Quiet == scanPc = "idle" /\ \A m \in Monitors : mon[m].pc = "idle"

StoreNext ==
    \/ Quiet /\ ScanAddLoad(MaxStoreOps, StorePlans, FALSE)
    \/ ScanAddSave
    \/ \E m \in Monitors :
         \/ Quiet /\ MonitorList(m, MaxStoreOps, FALSE)
         \/ MonitorNoPrice(m)
         \/ MonitorFetchRaises(m)
         \/ MonitorCheck(m)
         \/ MonitorSendDelivers(m, FALSE)
         \/ MonitorSendFails(m, FALSE)
         \/ MonitorUpdateLoad(m, FALSE)
         \/ MonitorUpdateSave(m)

SpecStore == StoreInit /\ [][StoreNext]_vars

(***************************************************************************)
(* SpecFaults: the program of Spec on a state file that may fail to be     *)
(* read or written.  A failed read is swallowed by load_state; a failed    *)
(* write (open or json.dump on the temporary file, or os.replace) raises   *)
(* out of save_state before the state file is replaced.                    *)
(***************************************************************************)
\* storage.py 14-18 raises inside add_trade: bot.py 493 / 546 catches it
ScanAddSaveFails ==
    /\ scanPc = "loaded"
    /\ scanPc' = "idle"
    /\ scanBuf' = <<>>
    /\ UNCHANGED <<MAX_ACTIVE_TRADES, store, clock, adds, ticks, mon, sent, twice, lost>>
    /\ UNCHANGED hitsVars
    /\ UNCHANGED scanVars
    /\ UNCHANGED fileVars

\* storage.py 14-18 raises inside update_trade: bot.py 380-381 catches it
\* inside the for loop, main.py 114-115 outside of it
MonitorUpdateSaveFails(m) ==
    /\ mon[m].pc = "save"
    /\ mon' = [mon EXCEPT ![m] =
                  IF m = "job" THEN NextTrade(mon[m]) ELSE IdleMonitor]
    /\ UNCHANGED <<MAX_ACTIVE_TRADES, store, clock, adds, ticks, scanPc, scanBuf, sent, twice, lost>>
    /\ UNCHANGED hitsVars
    /\ UNCHANGED scanVars
    /\ UNCHANGED fileVars

FaultsNext ==
    \/ ScanAddLoad(MaxOps, ScanPlans, TRUE)
    \/ ScanAddSave
    \/ ScanAddSaveFails
    \/ \E m \in Monitors :
         \/ MonitorList(m, MaxOps, TRUE)
         \/ MonitorNoPrice(m)
         \/ MonitorFetchRaises(m)
         \/ MonitorCheck(m)
         \/ MonitorSendDelivers(m, FALSE)
         \/ MonitorSendFails(m, FALSE)
         \/ MonitorUpdateLoad(m, TRUE)
         \/ MonitorUpdateSave(m)
         \/ MonitorUpdateSaveFails(m)

FaultsInit == Start(1..MaxStoreActive)

SpecFaults == FaultsInit /\ [][FaultsNext]_vars

(***************************************************************************)
(* SpecFile: load_state and save_state on the file system, called by the   *)
(* event loop of bot.py (add_trade) and by the thread of main.py           *)
(* (update_trade) at the same time.  A file is the sequence of the chunks  *)
(* written to it: json.dump writes through the buffer of the file object,  *)
(* which reaches the file when it fills and when the file is closed, here  *)
(* in two chunks.  Both writers use the one temporary name path + ".tmp".  *)
(***************************************************************************)
\* storage.py 16-17: what json.dump writes for a collection
Dump(trades) == <<[of |-> trades, part |-> 1], [of |-> trades, part |-> 2]>>

\* the bytes of a file between its end and a write beyond it
Hole == [of |-> <<>>, part |-> 0]

\* the content is all of what one json.dump wrote
Whole(content) ==
    /\ Len(content) = 2
    /\ content = Dump(content[1].of)

\* storage.py 5-12 on the file system: no trades when the file is missing
\* (line 6-7) or json.load raises on its content (line 11-12)
load_file(ns, dk) ==
    IF ns.path = 0 THEN <<>>
    ELSE IF Whole(dk[ns.path]) THEN dk[ns.path][1].of
    ELSE <<>>

\* the file after a write of one chunk at position pos
Written(content, pos, chunk) ==
    [i \in 1..(IF pos > Len(content) THEN pos ELSE Len(content)) |->
        IF i = pos THEN chunk
        ELSE IF i <= Len(content) THEN content[i]
        ELSE Hole]

\* bot.py 528-540 with trade_tracker.py 43-54: the event loop reads the
\* file and appends a new trade
WriterAddLoad ==
    /\ wr["bot"].pc = "idle"
    /\ saves < MaxSaves
    /\ saves' = saves + 1
    /\ clock' = clock + 1
    /\ wr' = [wr EXCEPT !["bot"] =
                [pc |-> "open", fd |-> 0,
                 state |-> add_trade(load_file(names, disk),
                                     VirtualTrade("XAU/USD", "1min", "BUY", 80, 2000, 1980,
                                                  2010, 2020, 2030, clock'))]]
    /\ UNCHANGED <<names, disk>>
    /\ UNCHANGED <<MAX_ACTIVE_TRADES, store, adds, ticks, scanPc, scanBuf, mon, sent, twice, lost>>
    /\ UNCHANGED hitsVars
    /\ UNCHANGED scanVars

\* main.py 92-112 with trade_tracker.py 67-76: the thread has listed the
\* open trades, a price hits a level of the first one, and update_trade
\* reads the file and replaces the record
WriterUpdateLoad ==
    /\ wr["loop"].pc = "idle"
    /\ saves < MaxSaves
    /\ saves' = saves + 1
    /\ LET listed == list_active_trades(load_file(names, disk))
       IN  /\ listed # <<>>
           /\ \E price \in FeedPrices :
                LET r == check_hits(listed[1], price)
                IN  /\ r.events # <<>>
                    /\ wr' = [wr EXCEPT !["loop"] =
                                [pc |-> "open", fd |-> 0,
                                 state |-> update_trade(load_file(names, disk), r.tr)]]
    /\ UNCHANGED <<names, disk>>
    /\ UNCHANGED sysVars
    /\ UNCHANGED hitsVars
    /\ UNCHANGED scanVars

\* storage.py 15-16: open(tmp, "w") creates the file or empties the one
\* that has the name
WriterOpen(w) ==
    /\ wr[w].pc = "open"
    /\ IF names.tmp = 0
       THEN /\ disk' = Append(disk, <<>>)
            /\ names' = [names EXCEPT !.tmp = Len(disk) + 1]
            /\ wr' = [wr EXCEPT ![w].pc = "dump", ![w].fd = Len(disk) + 1]
       ELSE /\ disk' = [disk EXCEPT ![names.tmp] = <<>>]
            /\ names' = names
            /\ wr' = [wr EXCEPT ![w].pc = "dump", ![w].fd = names.tmp]
    /\ UNCHANGED saves
    /\ UNCHANGED sysVars
    /\ UNCHANGED hitsVars
    /\ UNCHANGED scanVars

\* storage.py 17: the buffer fills and the first chunk reaches the file
WriterDump(w) ==
    /\ wr[w].pc = "dump"
    /\ disk' = [disk EXCEPT ![wr[w].fd] = Written(@, 1, Dump(wr[w].state)[1])]
    /\ wr' = [wr EXCEPT ![w].pc = "close"]
    /\ UNCHANGED <<names, saves>>
    /\ UNCHANGED sysVars
    /\ UNCHANGED hitsVars
    /\ UNCHANGED scanVars

\* storage.py 16-17: the with block ends, the rest is written, the file closed
WriterClose(w) ==
    /\ wr[w].pc = "close"
    /\ disk' = [disk EXCEPT ![wr[w].fd] = Written(@, 2, Dump(wr[w].state)[2])]
    /\ wr' = [wr EXCEPT ![w].pc = "replace"]
    /\ UNCHANGED <<names, saves>>
    /\ UNCHANGED sysVars
    /\ UNCHANGED hitsVars
    /\ UNCHANGED scanVars

\* storage.py 18: os.replace(tmp, path) gives the state file's name to the
\* file that has the temporary name now; with no such file it raises
\* FileNotFoundError, which bot.py 546 / main.py 114 catch
WriterReplace(w) ==
    /\ wr[w].pc = "replace"
    /\ names' = IF names.tmp = 0 THEN names
                ELSE [path |-> names.tmp, tmp |-> 0]
    /\ wr' = [wr EXCEPT ![w] = IdleWriter]
    /\ UNCHANGED <<disk, saves>>
    /\ UNCHANGED sysVars
    /\ UNCHANGED hitsVars
    /\ UNCHANGED scanVars

FileNext ==
    \/ WriterAddLoad
    \/ WriterUpdateLoad
    \/ \E w \in Writers :
         \/ WriterOpen(w)
         \/ WriterDump(w)
         \/ WriterClose(w)
         \/ WriterReplace(w)

SpecFile == Init /\ [][FileNext]_vars

(***************************************************************************)
(* SpecRefine: trade_monitor_job alone on a store of one trade, beside one *)
(* in-memory record that is given the same prices by successive check_hits *)
(* calls.  A tick is one iteration of the job: the record is read from the *)
(* state file, checked, announced and, when every send returns, written    *)
(* back.                                                                   *)
(***************************************************************************)
RefineInit ==
    /\ MAX_ACTIVE_TRADES = 1
    /\ \E p \in ScanPlans :
         LET trade == VirtualTrade("XAU/USD", "5min", p.side, 80, p.entry, p.sl,
                                   p.tp1, p.tp2, p.tp3, 1)
         IN  /\ rec = trade
             /\ store = add_trade(<<>>, trade)
    /\ calls = 0
    /\ pre = rec
    /\ lastPrice = None
    /\ lastEvents = <<>>
    /\ emitted = [e \in Events |-> 0]
    /\ clock = 1
    /\ adds = 1
    /\ ticks = 0
    /\ scanPc = "idle"
    /\ scanBuf = <<>>
    /\ mon = [m \in Monitors |-> IdleMonitor]
    /\ sent = {}
    /\ twice = {}
    /\ lost = {}
    /\ FileStart
    /\ ScanStart({TRUE}, {70}, {Flat})

\* bot.py 361-381 on the price the source reports, with the check_hits call
\* on the in-memory record for the same price; delivered says whether every
\* send_message of the iteration returns (line 376) or one raises into
\* line 380, past update_trade
MonitorTick(outcomes) ==
    /\ calls < MaxCalls
    /\ \E price \in Prices, delivered \in outcomes :
         LET listed == list_active_trades(store)
             r      == IF listed = <<>> THEN [tr |-> rec, events |-> <<>>]
                       ELSE check_hits(listed[1], price)
             ref    == check_hits(rec, price)
         IN  /\ store' = IF r.events # <<>> /\ delivered
                         THEN update_trade(store, r.tr) ELSE store
             /\ mon' = [mon EXCEPT !["job"].hits = r.events]
             /\ rec' = ref.tr
             /\ pre' = rec
             /\ lastPrice' = Some(price)
             /\ lastEvents' = ref.events
             /\ emitted' = [e \in Events |->
                              emitted[e] + (IF e \in InRange(ref.events) THEN 1 ELSE 0)]
    /\ calls' = calls + 1
    /\ ticks' = ticks + 1
    /\ UNCHANGED <<MAX_ACTIVE_TRADES, clock, adds, scanPc, scanBuf, sent, twice, lost>>
    /\ UNCHANGED fileVars
    /\ UNCHANGED scanVars

RefineNext == MonitorTick(BOOLEAN)

SpecRefine == RefineInit /\ [][RefineNext]_vars

(***************************************************************************)
(* SpecScore: analyze_once, on every observation and under every setting   *)
(* of MTF_FILTER and of MIN_SCORE.                                         *)
(***************************************************************************)
ScoreInit == Tracker(1..MaxActive) /\ ScanStart(BOOLEAN, {70, 95}, Observations)

AnalyzeOnce ==
    /\ result = None
    /\ result' = Some(analyze_once(obs, MTF_FILTER, MIN_SCORE))
    /\ UNCHANGED <<MTF_FILTER, MIN_SCORE, obs, LAST_STATE, alerts, manual, scans, scanned>>
    /\ UNCHANGED sysVars
    /\ UNCHANGED hitsVars
    /\ UNCHANGED fileVars

ScoreNext == AnalyzeOnce

SpecScore == ScoreInit /\ [][ScoreNext]_vars

(***************************************************************************)
(* SpecScan: autoscan_job, one (chat, symbol, timeframe) unit at a time,   *)
(* and on_text.  Both run on the event loop; LAST_STATE is read and        *)
(* written with no await in between (bot.py 519-523), and the call         *)
(* add_trade(VirtualTrade(chat_id = ..., ...)) is modelled as bot.py and   *)
(* trade_tracker.py write it.                                              *)
(***************************************************************************)
ScanInit == Tracker(1..MaxActive) /\ ScanStart(BOOLEAN, {70}, {Flat})

\* bot.py 515-544: analyze_once returns; delivered says whether
\* send_message (line 525) returns or raises into line 546
ScanUnit(key) ==
    /\ scans < MaxScans
    /\ scans' = scans + 1
    /\ \E o \in ScanObservations, delivered \in BOOLEAN :
         LET r        == analyze_once(o, MTF_FILTER, MIN_SCORE)
             prev     == LAST_STATE[key]
             alert    == alerting(r.signal, prev)
             appended == alert /\ delivered /\ Constructs(BotKeywords)
         IN  /\ LAST_STATE' = IF alert \/ r.signal = "WAIT"
                              THEN [LAST_STATE EXCEPT ![key] = r.signal]
                              ELSE LAST_STATE
             /\ alerts' = IF alert THEN [alerts EXCEPT ![key] = @ + 1] ELSE alerts
             /\ clock' = IF appended THEN clock + 1 ELSE clock
             /\ store' = IF appended
                         THEN add_trade(store,
                                        VirtualTrade(key[2], key[3], r.signal, r.score,
                                                     r.plan.entry, r.plan.sl, r.plan.tp1,
                                                     r.plan.tp2, r.plan.tp3, clock'))
                         ELSE store
             /\ scanned' = Some([key |-> key, signal |-> r.signal, prev |-> prev,
                                 announced |-> alert /\ delivered])
    /\ UNCHANGED <<MTF_FILTER, MIN_SCORE, obs, result, manual>>
    /\ UNCHANGED <<MAX_ACTIVE_TRADES, adds, ticks, scanPc, scanBuf, mon, sent, twice, lost>>
    /\ UNCHANGED hitsVars
    /\ UNCHANGED fileVars

\* bot.py 515-516, 546-547: fetch_candles_twelve raises inside analyze_once
ScanUnitRaises(key) ==
    /\ scans < MaxScans
    /\ scans' = scans + 1
    /\ scanned' = None
    /\ UNCHANGED <<MTF_FILTER, MIN_SCORE, obs, result, LAST_STATE, alerts, manual>>
    /\ UNCHANGED sysVars
    /\ UNCHANGED hitsVars
    /\ UNCHANGED fileVars

\* bot.py 453-495: on_text answers a symbol; a BUY or SELL is announced by
\* reply_text (line 476) and add_trade(VirtualTrade(...)) is called
ManualQuery(key) ==
    /\ scans < MaxScans
    /\ scans' = scans + 1
    /\ \E o \in ScanObservations :
         LET r        == analyze_once(o, MTF_FILTER, MIN_SCORE)
             announce == r.signal # "WAIT"
             appended == announce /\ Constructs(BotKeywords)
         IN  /\ manual' = IF announce THEN manual + 1 ELSE manual
             /\ clock' = IF appended THEN clock + 1 ELSE clock
             /\ store' = IF appended
                         THEN add_trade(store,
                                        VirtualTrade(key[2], key[3], r.signal, r.score,
                                                     r.plan.entry, r.plan.sl, r.plan.tp1,
                                                     r.plan.tp2, r.plan.tp3, clock'))
                         ELSE store
    /\ scanned' = None
    /\ UNCHANGED <<MTF_FILTER, MIN_SCORE, obs, result, LAST_STATE, alerts>>
    /\ UNCHANGED <<MAX_ACTIVE_TRADES, adds, ticks, scanPc, scanBuf, mon, sent, twice, lost>>
    /\ UNCHANGED hitsVars
    /\ UNCHANGED fileVars

ScanNext ==
    \E key \in Keys :
        \/ ScanUnit(key)
        \/ ScanUnitRaises(key)
        \/ ManualQuery(key)

SpecScan == ScanInit /\ [][ScanNext]_vars

(***************************************************************************)
(* Properties of the store and of the monitors.                            *)
(***************************************************************************)
\* every record the program holds: in the file, in a list a call has
\* loaded, in a monitor's list, and the record of SpecHits
AllRecords ==
    UNION ({InRange(store), InRange(scanBuf), {rec}}
           \cup {InRange(mon[m].trades) : m \in Monitors}
           \cup {InRange(mon[m].buf) : m \in Monitors})

Open(trades) == {i \in DOMAIN trades : ~trades[i].closed}

\* the trade monitor m is working on
Current(m) == mon[m].trades[mon[m].idx]

(***************************************************************************)
(* C1: a record of the state file that has been stored with closed true is *)
(* never stored with closed false afterwards.                              *)
(***************************************************************************)
C1_ClosedNeverReopened ==
    [][\A i \in DOMAIN store :
          (store[i].closed /\ i \in DOMAIN store') => store'[i].closed]_vars

(***************************************************************************)
(* C2: no trade record, in memory or in the state file, has both hit_sl    *)
(* and hit_tp3 true.                                                       *)
(***************************************************************************)
C2_StopAndFinalTargetExclusive ==
    \A t \in AllRecords : ~(t.hit_sl /\ t.hit_tp3)

\* one monitor has stored the trade with hit_tp3 while the other monitor's
\* copy of the same trade has just hit the stop-loss
C2_Witness ==
    \E m \in Monitors, i \in DOMAIN store :
        /\ mon[m].pc = "send"
        /\ Current(m).hit_sl
        /\ TradeKey(Current(m)) = TradeKey(store[i])
        /\ store[i].hit_tp3

(***************************************************************************)
(* C3: in the state file each of hit_tp1, hit_tp2, hit_tp3 and hit_sl of a *)
(* record only ever goes from false to true.                               *)
(***************************************************************************)
C3_FlagsNeverReset ==
    [][\A i \in DOMAIN store :
          i \in DOMAIN store' =>
              /\ store[i].hit_tp1 => store'[i].hit_tp1
              /\ store[i].hit_tp2 => store'[i].hit_tp2
              /\ store[i].hit_tp3 => store'[i].hit_tp3
              /\ store[i].hit_sl => store'[i].hit_sl]_vars

(***************************************************************************)
(* C5: every lifecycle event of a trade is delivered to the notification   *)
(* collaborator exactly once: none is delivered twice, and none is         *)
(* persisted as hit without having been delivered.                         *)
(***************************************************************************)
C5_NotifiedExactlyOnce == twice = {} /\ lost = {}

(***************************************************************************)
(* C6: a monitor that got a non-empty list from check_hits does not go on  *)
(* to the next trade (or end its iteration) before update_trade has saved  *)
(* the record, also when a send fails.                                     *)
(***************************************************************************)
C6_PersistedBeforeNextTrade ==
    [][\A m \in Monitors :
          (/\ mon[m].hits # <<>>
           /\ mon[m].pc \in {"send", "update", "save"}
           /\ mon'[m].pc \in {"fetch", "idle"}) => mon[m].pc = "save"]_vars

(***************************************************************************)
(* C9: add_trade on a list with exactly MAX_ACTIVE_TRADES open records     *)
(* closes exactly one of them, one with the smallest created_at, changes   *)
(* no other record, appends the new record and saves a list with exactly   *)
(* MAX_ACTIVE_TRADES open records; on a list with fewer open records it    *)
(* closes none.                                                            *)
(***************************************************************************)
C9_AddTradeStep ==
    LET old == store
        new == scanBuf'
        n == Len(old)
        changed == {i \in 1..n : new[i] # old[i]}
    IN  /\ Len(new) = n + 1
        /\ ~new[n + 1].closed
        /\ new[n + 1].created_at = clock'
        /\ Cardinality(Open(old)) = MAX_ACTIVE_TRADES =>
              /\ \E i \in Open(old) :
                    /\ changed = {i}
                    /\ new[i] = [old[i] EXCEPT !.closed = TRUE]
                    /\ \A j \in Open(old) : old[i].created_at <= old[j].created_at
              /\ Cardinality(Open(new)) = MAX_ACTIVE_TRADES
        /\ Cardinality(Open(old)) < MAX_ACTIVE_TRADES => changed = {}

C9_EvictsOldestOnly ==
    [][/\ (scanPc = "idle" /\ scanPc' = "loaded") => C9_AddTradeStep
       /\ (scanPc = "loaded" /\ scanPc' = "idle") => store' = scanBuf]_vars

\* add_trade has loaded a full list whose open records differ in
\* created_at, and closed the older one
C9_Witness ==
    /\ scanPc = "loaded"
    /\ Cardinality(Open(store)) = MAX_ACTIVE_TRADES
    /\ \E i, j \in Open(store) :
          /\ store[i].created_at < store[j].created_at
          /\ scanBuf[i].closed
          /\ ~scanBuf[j].closed

(***************************************************************************)
(* C10: update_trade(t) leaves every stored record unchanged whose         *)
(* identity (symbol, timeframe, side, entry, created_at) is not t's.       *)
(***************************************************************************)
C10_UpdateKeepsOtherRecords ==
    [][\A m \in Monitors :
          (mon[m].pc = "update" /\ mon'[m].pc = "save") =>
              \A i \in DOMAIN store :
                  TradeKey(store[i]) # TradeKey(Current(m)) => mon'[m].buf[i] = store[i]]_vars

(***************************************************************************)
(* The crossings as the specification words them, for the properties.      *)
(***************************************************************************)
Upward(level, prev, now) ==
    IF prev = None THEN now >= level ELSE prev[1] < level /\ level <= now

Downward(level, prev, now) ==
    IF prev = None THEN now <= level ELSE prev[1] > level /\ level >= now

\* the stop-loss crossing of trade t on the observation (prev, now)
StopCrossing(t, prev, now) ==
    IF t.side = "BUY" THEN Downward(t.sl, prev, now) ELSE Upward(t.sl, prev, now)

\* the take-profit crossing of a level of trade t on the observation (prev, now)
TargetCrossing(t, level, prev, now) ==
    IF t.side = "BUY" THEN Upward(level, prev, now) ELSE Downward(level, prev, now)

\* the last call of SpecHits hit the stop-loss
LastCallHitStop ==
    /\ calls > 0
    /\ ~pre.closed
    /\ ~pre.hit_sl
    /\ StopCrossing(pre, pre.last_price, lastPrice[1])

(***************************************************************************)
(* C4: over any sequence of check_hits calls on one record, each of SL,    *)
(* TP1, TP2, TP3 is returned by at most one call.                          *)
(***************************************************************************)
C4_EachEventAtMostOnce == \A e \in Events : emitted[e] <= 1

\* TP1 was flagged by an earlier call, the trade is still open, the price
\* crosses TP1 again and the call does not return TP1 again
C4_Witness ==
    /\ calls >= 2
    /\ pre.hit_tp1
    /\ ~pre.closed
    /\ TargetCrossing(pre, pre.tp1, pre.last_price, lastPrice[1])
    /\ emitted["TP1"] = 1
    /\ "TP1" \notin InRange(lastEvents)

(***************************************************************************)
(* C7: a call on an open trade with hit_sl false whose stop-loss crossing  *)
(* holds returns exactly <<"SL">>, sets hit_sl and closed, and leaves the  *)
(* three take-profit flags as they were, also when the same observation    *)
(* crosses a take-profit level.                                            *)
(***************************************************************************)
C7_StopLossFirst ==
    LastCallHitStop =>
        /\ lastEvents = <<"SL">>
        /\ rec.hit_sl
        /\ rec.closed
        /\ rec.hit_tp1 = pre.hit_tp1
        /\ rec.hit_tp2 = pre.hit_tp2
        /\ rec.hit_tp3 = pre.hit_tp3

\* the stop-loss and TP1 are crossed by the same observation
C7_Witness ==
    /\ LastCallHitStop
    /\ ~pre.hit_tp1
    /\ TargetCrossing(pre, pre.tp1, pre.last_price, lastPrice[1])
    /\ lastEvents = <<"SL">>

(***************************************************************************)
(* C8: when a call on an open trade does not hit the stop-loss, each of    *)
(* TP1, TP2, TP3 that is not yet flagged and whose crossing holds on the   *)
(* (previous price, new price) pair of that call is flagged by it, the     *)
(* list returned names exactly those, in the order TP1, TP2, TP3, and TP3  *)
(* closes the trade.  BUY with targets 2010, 2020, 2030, previous price    *)
(* 1995 and price 2025 returns <<"TP1", "TP2">> and leaves hit_tp3 false.  *)
(***************************************************************************)
NewTargets ==
    LET now == lastPrice[1]
        new(flag, level) == ~flag /\ TargetCrossing(pre, level, pre.last_price, now)
    IN  [TP1 |-> new(pre.hit_tp1, pre.tp1),
         TP2 |-> new(pre.hit_tp2, pre.tp2),
         TP3 |-> new(pre.hit_tp3, pre.tp3)]

C8_Example ==
    /\ calls > 0
    /\ pre.side = "BUY"
    /\ pre.sl = 1980 /\ pre.tp1 = 2010 /\ pre.tp2 = 2020 /\ pre.tp3 = 2030
    /\ ~pre.hit_tp1 /\ ~pre.hit_tp2 /\ ~pre.hit_tp3 /\ ~pre.closed
    /\ pre.last_price = Some(1995)
    /\ lastPrice = Some(2025)

C8_TargetsInOneCall ==
    /\ (calls > 0 /\ ~pre.closed /\ ~LastCallHitStop) =>
            /\ lastEvents = SelectSeq(<<"TP1", "TP2", "TP3">>, LAMBDA e : NewTargets[e])
            /\ rec.hit_tp1 = (pre.hit_tp1 \/ NewTargets.TP1)
            /\ rec.hit_tp2 = (pre.hit_tp2 \/ NewTargets.TP2)
            /\ rec.hit_tp3 = (pre.hit_tp3 \/ NewTargets.TP3)
            /\ rec.closed = NewTargets.TP3
            /\ rec.hit_sl = pre.hit_sl
    /\ C8_Example => (lastEvents = <<"TP1", "TP2">> /\ ~rec.hit_tp3)

\* the jump from 1995 to 2025 of the specification's example
C8_Witness == C8_Example /\ lastEvents = <<"TP1", "TP2">>

(***************************************************************************)
(* C19: a check_hits call on a closed record returns the empty list and    *)
(* leaves hit_sl, hit_tp1, hit_tp2, hit_tp3 and closed as they were, for   *)
(* every price: no flag changes after the call that closed the trade.      *)
(***************************************************************************)
C19_ClosedRecordUntouched ==
    (calls > 0 /\ pre.closed) =>
        /\ lastEvents = <<>>
        /\ rec.hit_sl = pre.hit_sl
        /\ rec.hit_tp1 = pre.hit_tp1
        /\ rec.hit_tp2 = pre.hit_tp2
        /\ rec.hit_tp3 = pre.hit_tp3
        /\ rec.closed

\* a trade closed by its stop-loss is offered a price that crosses its
\* last take-profit level
C19_Witness ==
    /\ calls > 0
    /\ pre.closed
    /\ pre.hit_sl
    /\ ~pre.hit_tp3
    /\ TargetCrossing(pre, pre.tp3, pre.last_price, lastPrice[1])
    /\ lastEvents = <<>>

(***************************************************************************)
(* C20: _crossed(level, prev, now, up) is, with no previous price,         *)
(* now >= level for up and now <= level for down, and with a previous      *)
(* price prev < level <= now for up and prev > level >= now for down; and  *)
(* check_hits flags a level only on the crossing of one direction: the     *)
(* stop-loss downward for BUY and upward for SELL, the take-profit levels  *)
(* upward for BUY and downward for SELL.                                   *)
(***************************************************************************)
C20_CrossingDirections ==
    calls > 0 =>
        LET prev == pre.last_price
            now  == lastPrice[1]
        IN  /\ \A level \in {pre.sl, pre.tp1, pre.tp2, pre.tp3} :
                 /\ _crossed(level, prev, now, TRUE) = Upward(level, prev, now)
                 /\ _crossed(level, prev, now, FALSE) = Downward(level, prev, now)
            /\ (rec.hit_sl /\ ~pre.hit_sl) => StopCrossing(pre, prev, now)
            /\ (rec.hit_tp1 /\ ~pre.hit_tp1) => TargetCrossing(pre, pre.tp1, prev, now)
            /\ (rec.hit_tp2 /\ ~pre.hit_tp2) => TargetCrossing(pre, pre.tp2, prev, now)
            /\ (rec.hit_tp3 /\ ~pre.hit_tp3) => TargetCrossing(pre, pre.tp3, prev, now)

\* a BUY trade observed below TP1: the downward test of TP1 holds, the
\* upward one does not, and the call flags nothing
C20_Witness ==
    /\ calls > 0
    /\ pre.side = "BUY"
    /\ pre.tp1 > pre.entry
    /\ Downward(pre.tp1, pre.last_price, lastPrice[1])
    /\ ~Upward(pre.tp1, pre.last_price, lastPrice[1])
    /\ ~StopCrossing(pre, pre.last_price, lastPrice[1])
    /\ ~rec.hit_tp1
    /\ ~rec.closed
    /\ lastEvents = <<>>

(***************************************************************************)
(* C11: an update_trade call for a trade that matches no record of the     *)
(* state file writes the collection back as the file holds it: no record   *)
(* is inserted, modified or removed, whatever the file held.               *)
(***************************************************************************)
C11_NoMatchLeavesStore ==
    [][\A m \in Monitors :
         (/\ mon[m].pc = "update"
          /\ mon'[m].pc = "save"
          /\ \A i \in DOMAIN store : ~matches(store[i], Current(m)))
         => mon'[m].buf = store]_vars

(***************************************************************************)
(* C14: a failed read or a failed write loses no record of the state file: *)
(* the collection an add_trade or update_trade call is going to write      *)
(* holds as many records as the file held when the call read it (and the   *)
(* new one, for add_trade), and the end of a write leaves in the file the  *)
(* collection that was there or the one the call was writing.              *)
(***************************************************************************)
C14_FailureKeepsRecords ==
    [][/\ (scanPc = "idle" /\ scanPc' = "loaded") => Len(scanBuf') = Len(store) + 1
       /\ \A m \in Monitors :
            (mon[m].pc = "update" /\ mon'[m].pc = "save") => Len(mon'[m].buf) = Len(store)
       /\ (scanPc = "loaded" /\ scanPc' = "idle") => store' \in {store, scanBuf}]_vars

(***************************************************************************)
(* C12: the read-modify-write cycles of add_trade and update_trade are     *)
(* serialized: the collection a call saves is the one the call computes    *)
(* from the file as it is when the call saves, so no write another         *)
(* activity completed in between is discarded.                             *)
(***************************************************************************)
C12_WritesSerialized ==
    [][/\ (scanPc = "loaded" /\ scanPc' = "idle") =>
              scanBuf = add_trade(store, scanBuf[Len(scanBuf)])
       /\ \A m \in Monitors :
            (mon[m].pc = "save" /\ mon'[m].pc # "save") =>
                mon[m].buf = update_trade(store, Current(m))]_vars

(***************************************************************************)
(* C15: a failure while one unit of an iteration is processed is caught    *)
(* and the units that remain are still processed: a monitor whose price    *)
(* source raises for one trade, or whose update_trade cannot write, goes   *)
(* on to the next trade of its list.                                       *)
(***************************************************************************)
C15_FailureSkipsOneUnit ==
    [][\A m \in Monitors :
         (/\ mon[m].pc \in {"fetch", "save"}
          /\ mon[m].idx < Len(mon[m].trades)
          /\ mon'[m] # mon[m])
         => mon'[m].pc # "idle"]_vars

(***************************************************************************)
(* C13: the state file at its canonical path is never partially written:   *)
(* whenever it exists, its content is all of what one save_state call      *)
(* wrote, whatever the interleaving of the save_state calls of the two     *)
(* writers, so that a load_state at any time reads a whole collection.     *)
(***************************************************************************)
C13_NoPartialFile == names.path # 0 => Whole(disk[names.path])

(***************************************************************************)
(* C16: analyze_once returns BUY or SELL only if the five gates hold: the  *)
(* strength is at least MIN_STRENGTH, the direction of the higher          *)
(* timeframe is the primary direction when MTF_FILTER is on, the trend     *)
(* filter holds, the volatility filter holds and the score is at least     *)
(* MIN_SCORE.  If one gate fails the result is WAIT, whatever the score;   *)
(* if all hold it is the primary direction.                                *)
(***************************************************************************)
Primary == IF obs.vi_p > obs.vi_m THEN "BUY" ELSE "SELL"

Gates ==
    [strength |-> Abs(obs.vi_p - obs.vi_m) >= MIN_STRENGTH,
     mtf      |-> MTF_FILTER =>
                     (IF obs.vi_p_htf > obs.vi_m_htf THEN "BUY" ELSE "SELL") = Primary,
     trend    |-> IF Primary = "BUY" THEN obs.last_price > obs.ema_val
                  ELSE obs.last_price < obs.ema_val,
     vol      |-> obs.atr_val * 1000 >= MIN_ATR_PCT * obs.last_price,
     score    |-> result # None /\ result[1].score >= MIN_SCORE]

C16_FiveGates ==
    result # None =>
        result[1].signal = (IF \A g \in DOMAIN Gates : Gates[g] THEN Primary ELSE "WAIT")

\* the trend gate alone fails, the score is at least MIN_SCORE, and the
\* result is WAIT
C16_Witness ==
    /\ result # None
    /\ ~Gates.trend
    /\ Gates.strength /\ Gates.mtf /\ Gates.vol /\ Gates.score
    /\ result[1].signal = "WAIT"

(***************************************************************************)
(* C17: for each key, the scan sends an alert only when the signal is BUY  *)
(* or SELL and differs from the last state recorded for the key (NONE at   *)
(* first), and then records the signal; a directional signal equal to the  *)
(* state recorded sends nothing, so consecutive scans with the same        *)
(* directional signal send one alert; WAIT is recorded and sends nothing;  *)
(* the other keys are left alone.                                          *)
(***************************************************************************)
C17_AlertOnChange ==
    [][(scans' = scans + 1 /\ scanned' # None) =>
          LET k    == scanned'[1].key
              sig  == scanned'[1].signal
              prev == LAST_STATE[k]
          IN  /\ alerts'[k] = alerts[k] + (IF sig \in {"BUY", "SELL"} /\ sig # prev
                                           THEN 1 ELSE 0)
              /\ LAST_STATE'[k] = sig
              /\ \A other \in Keys \ {k} :
                   alerts'[other] = alerts[other] /\ LAST_STATE'[other] = LAST_STATE[other]]_vars

\* the same directional signal twice for one key: one alert
C17_Witness ==
    /\ scanned # None
    /\ scanned[1].signal = "BUY"
    /\ scanned[1].prev = "BUY"
    /\ scans = 2
    /\ alerts[scanned[1].key] = 1

(***************************************************************************)
(* C18: whenever the scan or a manual query announces a BUY or SELL        *)
(* signal, a VirtualTrade of that symbol, timeframe and side is appended   *)
(* to the store.                                                           *)
(***************************************************************************)
C18_AnnouncedIsTracked ==
    [][((scanned' # None /\ scans' # scans /\ scanned'[1].announced) \/ manual' # manual) =>
          /\ Len(store') = Len(store) + 1
          /\ ~store'[Len(store')].closed]_vars

(***************************************************************************)
(* C21: every check_hits(trade, p) call leaves last_price = p, also on a   *)
(* closed trade and when the call returns no event, and the levels are     *)
(* tested against the value last_price had before the call: on an open     *)
(* trade the stop-loss is newly flagged exactly when its crossing holds    *)
(* from that value to p, and without a stop-loss hit TP1 is newly flagged  *)
(* exactly when its crossing holds from that value to p.                   *)
(***************************************************************************)
C21_LastPriceRecorded ==
    calls > 0 =>
        LET prev == pre.last_price
            now  == lastPrice[1]
        IN  /\ rec.last_price = Some(now)
            /\ (~pre.closed /\ ~pre.hit_sl) =>
                   (rec.hit_sl <=> StopCrossing(pre, prev, now))
            /\ (~pre.closed /\ ~pre.hit_tp1 /\ ~rec.hit_sl) =>
                   (rec.hit_tp1 <=> TargetCrossing(pre, pre.tp1, prev, now))

\* a closed trade is offered a new price: nothing is returned and the price
\* is recorded
C21_Witness ==
    /\ calls > 0
    /\ pre.closed
    /\ pre.last_price # None
    /\ pre.last_price # lastPrice
    /\ lastEvents = <<>>
    /\ rec.last_price = lastPrice

(***************************************************************************)
(* C22: the score analyze_once returns is the sum of 30 for the higher     *)
(* timeframe confirmation (which holds when MTF_FILTER is off), 25 for the *)
(* trend filter, 20 for a strength at the upper threshold                  *)
(* MIN_STRENGTH + 0.10, else 10 for a strength of at least MIN_STRENGTH,   *)
(* 15 for the volatility filter and 10 for a last candle whose body agrees *)
(* with the direction (close >= open for BUY, close <= open for SELL), and *)
(* it is within 0..100.  As stated, the 20 are given when the strength     *)
(* exceeds the upper threshold; the code gives them from the threshold on. *)
(***************************************************************************)
BodyAgrees ==
    \/ (Primary = "BUY" /\ obs.last_price >= obs.open)
    \/ (Primary = "SELL" /\ obs.last_price <= obs.open)

\* the sum, with the test of the upper strength threshold left open
ScoreSum(reaches(_)) ==
    LET strength == Abs(obs.vi_p - obs.vi_m)
    IN  (IF Gates.mtf THEN 30 ELSE 0)
        + (IF Gates.trend THEN 25 ELSE 0)
        + (IF reaches(strength) THEN 20 ELSE IF strength >= MIN_STRENGTH THEN 10 ELSE 0)
        + (IF Gates.vol THEN 15 ELSE 0)
        + (IF BodyAgrees THEN 10 ELSE 0)

\* C22 as stated: 20 if the strength exceeds MIN_STRENGTH + 0.10
C22_ScoreAsStated ==
    result # None =>
        /\ result[1].score = ScoreSum(LAMBDA x : x > MIN_STRENGTH + 10)
        /\ result[1].score \in 0..100

\* C22 as amended: 20 if the strength is at least MIN_STRENGTH + 0.10
C22_ScoreSum ==
    result # None =>
        /\ result[1].score = ScoreSum(LAMBDA x : x >= MIN_STRENGTH + 10)
        /\ result[1].score \in 0..100

\* a strength of exactly MIN_STRENGTH + 0.10 with every other part granted
C22_Witness ==
    /\ result # None
    /\ Abs(obs.vi_p - obs.vi_m) = MIN_STRENGTH + 10
    /\ result[1].score = 100

(***************************************************************************)
(* C23: for a trade with well ordered levels and every price sequence, the *)
(* monitor (record read from the store on each tick, check_hits, written   *)
(* back by update_trade when the list of events is not empty) returns on   *)
(* each tick the list successive check_hits calls on one in-memory record  *)
(* return, and leaves in the store the flags and the closed value of that  *)
(* record.                                                                 *)
(***************************************************************************)
C23_MonitorMatchesMemory ==
    calls > 0 =>
        /\ mon["job"].hits = lastEvents
        /\ store[1].hit_sl = rec.hit_sl
        /\ store[1].hit_tp1 = rec.hit_tp1
        /\ store[1].hit_tp2 = rec.hit_tp2
        /\ store[1].hit_tp3 = rec.hit_tp3
        /\ store[1].closed = rec.closed

(***************************************************************************)
(* C24: for a trade with well ordered levels (BUY: sl < tp1 < tp2 < tp3,   *)
(* SELL: sl > tp1 > tp2 > tp3), after any sequence of check_hits calls on  *)
(* a fresh record, hit_tp3 implies hit_tp2 and hit_tp2 implies hit_tp1,    *)
(* and while the trade is open with last_price set, no level whose flag is *)
(* false has been reached by last_price.                                   *)
(***************************************************************************)
WellOrdered(t) ==
    IF t.side = "BUY" THEN t.sl < t.tp1 /\ t.tp1 < t.tp2 /\ t.tp2 < t.tp3
    ELSE t.sl > t.tp1 /\ t.tp1 > t.tp2 /\ t.tp2 > t.tp3

\* the price has reached a take-profit level, or the stop-loss, of trade t
ReachedTarget(t, level, price) ==
    IF t.side = "BUY" THEN price >= level ELSE price <= level

ReachedStop(t, price) ==
    IF t.side = "BUY" THEN price <= t.sl ELSE price >= t.sl

C24_FlagsOrderedAndComplete ==
    WellOrdered(rec) =>
        /\ rec.hit_tp3 => rec.hit_tp2
        /\ rec.hit_tp2 => rec.hit_tp1
        /\ (~rec.closed /\ rec.last_price # None) =>
               /\ ~rec.hit_sl => ~ReachedStop(rec, rec.last_price[1])
               /\ ~rec.hit_tp1 => ~ReachedTarget(rec, rec.tp1, rec.last_price[1])
               /\ ~rec.hit_tp2 => ~ReachedTarget(rec, rec.tp2, rec.last_price[1])
               /\ ~rec.hit_tp3 => ~ReachedTarget(rec, rec.tp3, rec.last_price[1])

\* the first price observed is TP1 itself: TP1 is flagged, TP2 is not
\* reached, the trade is open
C24_Witness ==
    /\ calls = 1
    /\ WellOrdered(rec)
    /\ rec.last_price = Some(rec.tp1)
    /\ rec.hit_tp1
    /\ ~rec.hit_tp2
    /\ ~rec.closed

(***************************************************************************)
(* C25: starting from an empty store with MAX_ACTIVE_TRADES >= 1, the      *)
(* number of records of the state file with closed false is at most        *)
(* MAX_ACTIVE_TRADES in every reachable state, under any interleaving of   *)
(* add_trade calls with the steps of the monitors.                         *)
(***************************************************************************)
C25_OpenWithinCapacity == Cardinality(Open(store)) <= MAX_ACTIVE_TRADES

(***************************************************************************)
(* C26: MIN_ATR_PCT, the stop multiplier and the target multipliers being  *)
(* positive and the target multipliers increasing, every BUY result of     *)
(* analyze_once carries a plan with sl < entry < tp1 < tp2 < tp3, every    *)
(* SELL result one with sl > entry > tp1 > tp2 > tp3, and a result whose   *)
(* ATR is zero, its levels all equal to the entry, is a WAIT.              *)
(***************************************************************************)
Collapsed(plan) ==
    /\ plan.sl = plan.entry
    /\ plan.tp1 = plan.entry
    /\ plan.tp2 = plan.entry
    /\ plan.tp3 = plan.entry

C26_PlanStrictlyOrdered ==
    (/\ MIN_ATR_PCT > 0
     /\ ATR_SL_MULT > 0
     /\ 0 < ATR_TP1_MULT
     /\ ATR_TP1_MULT < ATR_TP2_MULT
     /\ ATR_TP2_MULT < ATR_TP3_MULT
     /\ result # None)
    => LET r == result[1]
           p == r.plan
       IN  /\ r.signal = "BUY"
                => /\ p.sl < p.entry
                   /\ p.entry < p.tp1
                   /\ p.tp1 < p.tp2
                   /\ p.tp2 < p.tp3
           /\ r.signal = "SELL"
                => /\ p.sl > p.entry
                   /\ p.entry > p.tp1
                   /\ p.tp1 > p.tp2
                   /\ p.tp2 > p.tp3
           /\ (r.atr_val = 0 \/ Collapsed(p)) => r.signal = "WAIT"
           /\ r.atr_val = 0 => Collapsed(p)

\* a SELL announced with the ATR exactly at MIN_ATR_PCT of the price
C26_Witness ==
    /\ result # None
    /\ result[1].signal = "SELL"
    /\ obs.atr_val * 1000 = MIN_ATR_PCT * obs.last_price
    /\ result[1].plan.tp3 < result[1].plan.entry

====
